---- MODULE Spec2Model ----
(***************************************************************************)
(* Model of the code-critique backend: the review pipeline of main.py      *)
(* (create_review, process_review_task) over the persistence operations of *)
(* database.py, the hybrid analysis of ai_service.py and the repository    *)
(* fetcher of github_service.py (fetch_repository_smart).                  *)
(***************************************************************************)
EXTENDS Integers, Sequences, FiniteSets, TLC

(***************************************************************************)
(* Bounds of the model.                                                    *)
(***************************************************************************)
\* number of review attempts that create_review may create
MaxReviews == 2
\* number of entries of a repository tree listing
MaxTree == 3

(***************************************************************************)
(* Optional values: None is <<>>, Some(x) is <<x>>.                        *)
(***************************************************************************)
None == <<>>
Some(x) == <<x>>

\* the sum of the first n elements of a sequence of numbers
RECURSIVE SumTo(_, _)
SumTo(s, n) == IF n = 0 THEN 0 ELSE SumTo(s, n - 1) + s[n]
SumSeq(s) == SumTo(s, Len(s))

(***************************************************************************)
(* models.py                                                               *)
(***************************************************************************)
PENDING == "pending"
PROCESSING == "processing"
COMPLETED == "completed"
FAILED == "failed"
\* a review id for which no record exists yet
NoRecord == "absent"

ReviewStatus == {PENDING, PROCESSING, COMPLETED, FAILED}

\* the content of a file is kept as what the analyzer reads of it: its length
\* in characters, its number of lines, the secret rules whose pattern matches
\* it and whether it contains the placeholder literal
EmptyContent == [chars |-> 0, lines |-> 0, pats |-> {}, placeholder |-> FALSE]

RepositoryFile(path, content, size, language) ==
    [path |-> path, content |-> content, size |-> size, language |-> language]

FeedbackItem(category, severity, title, file_path) ==
    [category |-> category, severity |-> severity, title |-> title,
     file_path |-> file_path]

(***************************************************************************)
(* ai_service.py: the static analyzer                                      *)
(***************************************************************************)
\* secret_patterns, in dict order
secret_patterns == <<"Generic API Key", "Supabase Key", "Private Key Block">>

\* "JWT_SECRET" in name, for each key of secret_patterns
NameHasJwtSecret(name) == FALSE

MonolithTitle == "Large File/Monolithic Module Detected"

\* the findings of the secret rules name[k..] for one file
RECURSIVE SecretFindings(_, _)
SecretFindings(file, k) ==
    IF k > Len(secret_patterns) THEN <<>>
    ELSE LET name == secret_patterns[k]
             hit  == /\ name \in file.content.pats
                     /\ ~(NameHasJwtSecret(name) /\ file.content.placeholder)
         IN (IF hit
             THEN <<FeedbackItem("security", "critical", name, Some(file.path))>>
             ELSE <<>>) \o SecretFindings(file, k + 1)

\* the size rule with the threshold included
FileFindings_from300(file) ==
    IF file.content = EmptyContent THEN <<>>
    ELSE (IF file.content.lines >= 300
          THEN <<FeedbackItem("architecture", "warning", MonolithTitle,
                              Some(file.path))>>
          ELSE <<>>) \o SecretFindings(file, 1)

\* lines 130-158: the loop body for one file
FileFindings(file) ==
    IF file.content = EmptyContent THEN <<>>
    ELSE (IF file.content.lines > 300
          THEN <<FeedbackItem("architecture", "warning", MonolithTitle,
                              Some(file.path))>>
          ELSE <<>>) \o SecretFindings(file, 1)

RECURSIVE _run_static_analysis(_)
_run_static_analysis(files) ==
    IF files = <<>> THEN <<>>
    ELSE FileFindings(Head(files)) \o _run_static_analysis(Tail(files))

(***************************************************************************)
(* ai_service.py: the parser of the reasoning backend's answer.  The text  *)
(* of an answer is a sequence of segments: prose without brackets, or a    *)
(* bracketed array with its elements.  An element of an array is an object *)
(* with its fields, an object that FeedbackItem rejects (a required field  *)
(* missing, a field of the wrong type), or a value that is no object.  An  *)
(* array segment with json = FALSE is bracketed text that json.loads       *)
(* rejects.                                                                *)
(***************************************************************************)
ObjItem(category, severity, file_path) ==
    [kind |-> "object", valid |-> TRUE, category |-> category,
     severity |-> severity, title |-> "ai", file_path |-> file_path]
InvalidItem == [kind |-> "object", valid |-> FALSE, category |-> "quality",
                severity |-> "info", title |-> "ai", file_path |-> None]
NonObjectItem == [kind |-> "scalar", valid |-> FALSE, category |-> "quality",
                  severity |-> "info", title |-> "ai", file_path |-> None]

Prose == [seg |-> "prose", data |-> <<>>, json |-> TRUE]
ArraySeg(data) == [seg |-> "array", data |-> data, json |-> TRUE]
MalformedSeg(data) == [seg |-> "array", data |-> data, json |-> FALSE]

\* the segments where the text reads "[" whitespace "{", and those where it
\* reads "}" whitespace "]"
OpensWithObject(s) ==
    s.seg = "array" /\ s.data # <<>> /\ s.data[1].kind = "object"
ClosesWithObject(s) ==
    s.seg = "array" /\ s.data # <<>> /\ s.data[Len(s.data)].kind = "object"

\* re.search(r'\[\s*\{.*\}\s*\]', text, re.DOTALL) followed by json.loads of
\* the match: the match runs from the leftmost "[{" that has a "}]" after it
\* to the last "}]" of the text; it is JSON only when it is one array segment
\* that json.loads accepts
re_search(text) ==
    LET ends   == {k \in 1..Len(text) : ClosesWithObject(text[k])}
        starts == {k \in 1..Len(text) :
                      /\ OpensWithObject(text[k])
                      /\ \E e \in ends : e >= k}
    IN IF starts = {} THEN [shape |-> "noarray", data |-> <<>>]
       ELSE LET first == CHOOSE k \in starts : \A j \in starts : k <= j
                last  == CHOOSE k \in ends : \A j \in ends : j <= k
            IN IF first = last /\ text[first].json
               THEN [shape |-> "array", data |-> text[first].data]
               ELSE [shape |-> "badjson", data |-> <<>>]

\* the loop of lines 204-209: the list built so far, or "raise" when the
\* handler of line 208 itself raises (item.get on a value that is no object)
RECURSIVE CoerceItems(_, _)
CoerceItems(data, acc) ==
    IF data = <<>> THEN [raised |-> FALSE, list |-> acc]
    ELSE LET item == Head(data)
         IN IF item.kind = "object" /\ item.valid
            THEN CoerceItems(Tail(data),
                     Append(acc, FeedbackItem(item.category, item.severity,
                                              item.title, item.file_path)))
            ELSE IF item.kind = "object"
            THEN CoerceItems(Tail(data), acc)
            ELSE [raised |-> TRUE, list |-> acc]

\* the body of the try of lines 198-210: what it returns, or that it raised;
\* returned = FALSE is falling out of "if match" without a return
TryBody(text) ==
    LET m == re_search(text)
    IN CASE m.shape = "noarray" ->
                [raised |-> FALSE, returned |-> FALSE, list |-> <<>>]
         [] m.shape = "badjson" ->
                [raised |-> TRUE, returned |-> FALSE, list |-> <<>>]
         [] OTHER ->
                LET r == CoerceItems(m.data, <<>>)
                IN [raised |-> r.raised, returned |-> ~r.raised,
                    list |-> IF r.raised THEN <<>> ELSE r.list]

\* the handler of lines 211-212 without its except clause
ParseCall_unguarded(text) ==
    LET b == TryBody(text)
    IN [raised |-> b.raised, value |-> b.list]

\* one call of _parse_ai_response: the except of line 211 logs, and line 213
\* returns the empty list
ParseCall(text) ==
    LET b == TryBody(text)
    IN [raised |-> FALSE, value |-> IF b.returned THEN b.list ELSE <<>>]

_parse_ai_response(text) == ParseCall(text).value

(***************************************************************************)
(* ai_service.py: the score aggregator                                     *)
(***************************************************************************)
\* the severity looked up as it is, without lower()
Lower_identity(s) == s

\* severity.lower(), for the severities of the model
Lower(s) ==
    CASE s = "CRITICAL" -> "critical"
      [] s = "WARNING" -> "warning"
      [] s = "INFO" -> "info"
      [] OTHER -> s

\* the weights of the per-category variant (ai_services.py)
Deduction_critical3(severity) ==
    CASE Lower(severity) = "critical" -> 3
      [] Lower(severity) = "warning" -> 2
      [] Lower(severity) = "info" -> 1
      [] OTHER -> 1

Deduction(severity) ==
    CASE Lower(severity) = "critical" -> 4
      [] Lower(severity) = "warning" -> 2
      [] Lower(severity) = "info" -> 1
      [] OTHER -> 1

Max(a, b) == IF a >= b THEN a ELSE b

ScoreKeys == {"security", "quality", "architecture"}

\* lines 220-226 with max(0, ...) left out
ScoreStep_unclamped(scores, item) ==
    IF item.category \in ScoreKeys
    THEN [scores EXCEPT ![item.category] =
             scores[item.category] - Deduction(item.severity)]
    ELSE scores

\* lines 220-226: one pass of the loop body
ScoreStep(scores, item) ==
    IF item.category \in ScoreKeys
    THEN [scores EXCEPT ![item.category] =
             Max(0, scores[item.category] - Deduction(item.severity))]
    ELSE scores

\* the loop leaving at the first finding whose category has no score
RECURSIVE FoldScores_break(_, _)
FoldScores_break(feedback, scores) ==
    IF feedback = <<>> \/ Head(feedback).category \notin ScoreKeys THEN scores
    ELSE FoldScores_break(Tail(feedback), ScoreStep(scores, Head(feedback)))

RECURSIVE FoldScores(_, _)
FoldScores(feedback, scores) ==
    IF feedback = <<>> THEN scores
    ELSE FoldScores(Tail(feedback), ScoreStep(scores, Head(feedback)))

\* round(x / 3) for a natural x: the fraction is 0, 1/3 or 2/3, never a half
RoundThird(x) == (x + 1) \div 3

\* line 217
InitialScores == [security |-> 10, quality |-> 10, architecture |-> 10]

\* line 228
WithOverall(s) ==
    [security |-> s.security, quality |-> s.quality,
     architecture |-> s.architecture,
     overall |-> RoundThird(s.security + s.quality + s.architecture)]

calculate_scores(feedback) == WithOverall(FoldScores(feedback, InitialScores))

\* ai_services.py, lines 205-220: calculate_scores of the per-category
\* variant; its weight table is looked up with the severity as it is
DeductionPerCategory(severity) ==
    CASE severity = "critical" -> 3
      [] severity = "warning" -> 2
      [] severity = "info" -> 1
      [] OTHER -> 1

RECURSIVE FoldScoresPerCategory(_, _)
FoldScoresPerCategory(feedback, scores) ==
    IF feedback = <<>> THEN scores
    ELSE LET item == Head(feedback)
         IN FoldScoresPerCategory(Tail(feedback),
                IF item.category \in ScoreKeys
                THEN [scores EXCEPT ![item.category] =
                         Max(0, @ - DeductionPerCategory(item.severity))]
                ELSE scores)

calculate_scores_per_category(feedback) ==
    WithOverall(FoldScoresPerCategory(feedback, InitialScores))

(***************************************************************************)
(* State.  The persistence layer (database.py) holds the review records    *)
(* and the subscriptions; main.py runs one background task per accepted    *)
(* review; a task is suspended only inside the repository fetch and the    *)
(* reasoning-backend call: the operations of database.py call the store's  *)
(* synchronous client and never yield.                                     *)
(***************************************************************************)
VARIABLES
    reviews,     \* table "reviews": review id -> record
    used,        \* table "subscriptions": user -> reviews_used_this_month
    pc,          \* position of each background task
    run,         \* locals of each background task
    response,    \* HTTP status of the last create_review request
    \* one call of GitHubService.fetch_repository_smart
    fpc,            \* position in the call
    tree_data,      \* the tree listing of the repository
    tree_log,       \* the tree requests issued, each with its outcome
    requests,       \* the content requests issued, in order
    idx,            \* index in tree_data of the item the loop is at
    files,          \* local files
    total_size,     \* local total_size
    language_stats, \* local language_stats, keys in insertion order
    outcome,        \* what the call returned or raised
    \* one call of a function of ai_service.py
    fn_arg,         \* the arguments of the call
    fn_pos,         \* how many elements of the argument the call has gone through
    fn_acc,         \* the local the call accumulates into
    fn_ret          \* what the call returned

pipeVars == <<reviews, used, pc, run, response>>
fetchVars == <<fpc, tree_data, tree_log, requests, idx, files, total_size,
               language_stats, outcome>>
fnVars == <<fn_arg, fn_pos, fn_acc, fn_ret>>
vars == <<reviews, used, pc, run, response, fpc, tree_data, tree_log, requests,
          idx, files, total_size, language_stats, outcome, fn_arg, fn_pos,
          fn_acc, fn_ret>>

ReviewIds == 1..MaxReviews
Users == {"u1"}

\* reviews_limit of the default subscription
reviews_limit == 2

\* what the fetch stage hands to the analysis: the files of a RepositoryData
BigSecretFile ==
    RepositoryFile("main.py",
                   [chars |-> 9000, lines |-> 400, pats |-> {"Private Key Block"},
                    placeholder |-> FALSE], 9000, "Python")
PlainFile ==
    RepositoryFile("util.js",
                   [chars |-> 200, lines |-> 10, pats |-> {}, placeholder |-> FALSE],
                   200, "JavaScript")
PipelineRepos == {<<>>, <<PlainFile, BigSecretFile>>}

\* what the reasoning backend answers in the pipeline
PipelineTexts ==
    {<<Prose>>,
     <<Prose,
       ArraySeg(<<ObjItem("security", "critical", Some("main.py")), InvalidItem,
                  ObjItem("architecture", "info", None)>>),
       Prose>>}

\* str(e) of what the fetch stage raises: the fetcher's HTTPException, or the
\* AttributeError of main.py line 213, which calls fetch_repository_contents
\* where GitHubService defines fetch_repository_smart
FetchErrors == {"404: Repository tree not found on 'main' or 'master' branch.",
                "'GitHubService' object has no attribute 'fetch_repository_contents'"}
\* str(e) of what analyze_repository raises: an error status of the backend
\* (line 111), and a request that raised, as a timeout does (line 114)
AnalyzeErrors == {"502: AI service failed (HTTP 429)",
                  "500: AI service failed: timed out"}

NoReview == [status |-> NoRecord, feedback |-> None, scores |-> None,
             error_message |-> None, user_id |-> None]
NoRun == [user_id |-> None, repo_data |-> None, text |-> None, raised |-> None,
          counter_written |-> None]

PipeInit ==
    /\ reviews = [r \in ReviewIds |-> NoReview]
    /\ used = [u \in Users |-> 0]
    /\ pc = [r \in ReviewIds |-> "none"]
    /\ run = [r \in ReviewIds |-> NoRun]
    /\ response = 0

\* no call of the fetcher is in progress
FetchIdle ==
    /\ fpc = "idle"
    /\ tree_data = <<>>
    /\ tree_log = <<>>
    /\ requests = <<>>
    /\ idx = 1
    /\ files = <<>>
    /\ total_size = 0
    /\ language_stats = <<>>
    /\ outcome = [kind |-> "none"]

\* no call of a function of ai_service.py is under evaluation
FnIdle ==
    /\ fn_arg = <<>>
    /\ fn_pos = 0
    /\ fn_acc = <<>>
    /\ fn_ret = None

Init == PipeInit /\ FetchIdle /\ FnIdle

(***************************************************************************)
(* database.py.  Every operation takes the outcome of its request to the   *)
(* store: ok = FALSE is the request raising, which the operation logs.     *)
(***************************************************************************)
\* the smallest id without a record: the id the insert returns
NextId == CHOOSE r \in ReviewIds : /\ reviews[r].status = NoRecord
                                   /\ \A q \in 1..(r - 1) : reviews[q].status # NoRecord

\* get_user_subscription(...) then reviews_used < reviews_limit
check_review_limit(u, subOk) == subOk /\ used[u] < reviews_limit

update_review_status(revs, id, status, ok) ==
    IF ok THEN [revs EXCEPT ![id].status = status] ELSE revs

\* the update without its .eq("id", review_id) filter
update_review_results_unfiltered(revs, id, feedback, scores, ok) ==
    IF ok THEN [q \in DOMAIN revs |->
                   IF revs[q].status = NoRecord THEN revs[q]
                   ELSE [revs[q] EXCEPT !.status = COMPLETED,
                                        !.feedback = Some(feedback),
                                        !.scores = Some(scores)]]
    ELSE revs

update_review_results(revs, id, feedback, scores, ok) ==
    IF ok THEN [revs EXCEPT ![id].status = COMPLETED,
                            ![id].feedback = Some(feedback),
                            ![id].scores = Some(scores)]
    ELSE revs

update_review_error(revs, id, error_message, ok) ==
    IF ok THEN [revs EXCEPT ![id].status = FAILED,
                            ![id].error_message = Some(error_message)]
    ELSE revs

\* the subscription is read, then written with current_used + 1
increment_reviews_used(u, subOk, ok) ==
    IF subOk /\ ok THEN [used EXCEPT ![u] = used[u] + 1] ELSE used

\* all_feedback of analyze_repository: static findings, then the parsed answer
analyze_repository(repo_files, text) ==
    _run_static_analysis(repo_files) \o _parse_ai_response(text)

(***************************************************************************)
(* main.py: create_review                                                  *)
(***************************************************************************)
CreateReview(u, subOk, insOk) ==
    /\ IF ~check_review_limit(u, subOk)
       THEN /\ response' = 403
            /\ UNCHANGED <<reviews, pc, run>>
       ELSE IF ~insOk
       THEN /\ response' = 500
            /\ UNCHANGED <<reviews, pc, run>>
       ELSE /\ \E r \in ReviewIds : reviews[r].status = NoRecord
            /\ reviews' = [reviews EXCEPT ![NextId] =
                              [NoReview EXCEPT !.status = PENDING,
                                               !.user_id = Some(u)]]
            /\ pc' = [pc EXCEPT ![NextId] = "scheduled"]
            /\ run' = [run EXCEPT ![NextId].user_id = Some(u)]
            /\ response' = 201
    /\ UNCHANGED used
    /\ UNCHANGED <<fetchVars, fnVars>>

(***************************************************************************)
(* main.py: process_review_task                                            *)
(***************************************************************************)
\* lines 207-213: the status write, the token lookup, the fetch is issued
StartTask(r, ok) ==
    /\ pc[r] = "scheduled"
    /\ reviews' = update_review_status(reviews, r, PROCESSING, ok)
    /\ pc' = [pc EXCEPT ![r] = "fetching"]
    /\ UNCHANGED <<used, run, response>>
    /\ UNCHANGED <<fetchVars, fnVars>>

\* line 233 raising into the handler of line 235 when the increment failed
AfterIncrement_raising(revs, id, failed) ==
    IF failed
    THEN update_review_error(revs, id, "Error incrementing reviews used", TRUE)
    ELSE revs

\* line 233 returns: increment_reviews_used catches every exception of its
\* store requests (database.py lines 169-170), so the handler of line 235 is
\* not entered after the results were written
AfterIncrement(revs, id, failed) == revs

\* lines 235-237: the handler of any exception raised in the try block
Except(r, e, ok) ==
    /\ reviews' = update_review_error(reviews, r, e, ok)
    /\ run' = [run EXCEPT ![r].raised = Some(e)]
    /\ pc' = [pc EXCEPT ![r] = "done"]
    /\ UNCHANGED <<used, response>>
    /\ UNCHANGED <<fetchVars, fnVars>>

\* line 213 returns; analyze_repository runs up to its backend call (line 100)
FetchReturn(r, repo_files) ==
    /\ pc[r] = "fetching"
    /\ run' = [run EXCEPT ![r].repo_data = Some(repo_files)]
    /\ pc' = [pc EXCEPT ![r] = "analyzing"]
    /\ UNCHANGED <<reviews, used, response>>
    /\ UNCHANGED <<fetchVars, fnVars>>

FetchRaise(r, e, ok) ==
    /\ pc[r] = "fetching"
    /\ Except(r, e, ok)

\* the backend answers: lines 103-107 of ai_service.py, then lines 223-233
AnalyzeReturn(r, text, ok, subOk, incOk) ==
    /\ pc[r] = "analyzing"
    /\ LET feedback == analyze_repository(run[r].repo_data[1], text)
           scores   == calculate_scores(feedback)
           u        == run[r].user_id[1]
       IN /\ reviews' = AfterIncrement(
                          update_review_results(reviews, r, feedback, scores, ok),
                          r, ~(subOk /\ incOk))
          /\ used' = increment_reviews_used(u, subOk, incOk)
          /\ run' = [run EXCEPT ![r].text = Some(text),
                                ![r].counter_written =
                                    IF used'[u] # used[u] THEN Some(used'[u])
                                    ELSE None]
    /\ pc' = [pc EXCEPT ![r] = "done"]
    /\ UNCHANGED response
    /\ UNCHANGED <<fetchVars, fnVars>>

\* the backend call fails: lines 109-114 of ai_service.py raise
AnalyzeRaise(r, e, ok) ==
    /\ pc[r] = "analyzing"
    /\ Except(r, e, ok)

Next ==
    \/ \E u \in Users, subOk \in BOOLEAN, insOk \in BOOLEAN : CreateReview(u, subOk, insOk)
    \/ \E r \in ReviewIds, ok \in BOOLEAN : StartTask(r, ok)
    \/ \E r \in ReviewIds, repo_files \in PipelineRepos : FetchReturn(r, repo_files)
    \/ \E r \in ReviewIds, e \in FetchErrors, ok \in BOOLEAN : FetchRaise(r, e, ok)
    \/ \E r \in ReviewIds, text \in PipelineTexts, ok \in BOOLEAN,
          subOk \in BOOLEAN, incOk \in BOOLEAN :
          AnalyzeReturn(r, text, ok, subOk, incOk)
    \/ \E r \in ReviewIds, e \in AnalyzeErrors, ok \in BOOLEAN : AnalyzeRaise(r, e, ok)

Spec == Init /\ [][Next]_vars

\* the pipeline of a user whose subscription has one review left this month
QuotaInit ==
    /\ reviews = [r \in ReviewIds |-> NoReview]
    /\ used = [u \in Users |-> reviews_limit - 1]
    /\ pc = [r \in ReviewIds |-> "none"]
    /\ run = [r \in ReviewIds |-> NoRun]
    /\ response = 0
    /\ FetchIdle
    /\ FnIdle

SpecQuota == QuotaInit /\ [][Next]_vars

(***************************************************************************)
(* github_service.py: fetch_repository_smart.  A path is a string; what    *)
(* the code computes from its characters (os.path.splitext, endswith, the  *)
(* substring tests) is tabulated for the paths of the model.               *)
(***************************************************************************)
MAX_FILE_SIZE_TO_FETCH == 30000
MAX_FILES_TO_FETCH == 70

\* the paths of a run of empty source files that fills the listing up to one
\* below the file cap
PadPath(j) == "pad/f" \o ToString(j) \o ".py"
PadPaths == {PadPath(j) : j \in 1..(MAX_FILES_TO_FETCH - 1)}

\* os.path.splitext(path)[1]
SplitExt(path) ==
    CASE path \in {"app.py", "lib/big.py"} \cup PadPaths -> ".py"
      [] path \in {"web/huge.js", "node_modules/x.js"} -> ".js"
      [] path = "README.md" -> ".md"
      [] path = "web/view.tsx" -> ".tsx"
      [] path = "logo.png" -> ".png"
      [] OTHER -> ""

\* name.endswith(('_min', '.test', '.spec')) for the name part of splitext
NameHasMarker(path) == FALSE

code_exts ==
    {".py", ".js", ".jsx", ".ts", ".tsx", ".java", ".go", ".rb", ".php", ".html",
     ".css", ".scss", ".sql", ".rs", ".dart", ".swift", ".kt", ".md", ".json",
     ".yml", ".yaml"}

_is_code_file(file_path) ==
    IF NameHasMarker(file_path) \/ SplitExt(file_path) \in {".lock", ".map", ".log"}
    THEN FALSE
    ELSE SplitExt(file_path) \in code_exts

\* the patterns of the skip list that occur in the path
SkipPatternsIn(path) ==
    IF path = "node_modules/x.js" THEN {"node_modules/"} ELSE {}

_should_skip_path(file_path) == SkipPatternsIn(file_path) # {}

\* mapping of _detect_language
LanguageMapping ==
    [e \in {".py", ".js", ".ts", ".html", ".css", ".sql", ".java", ".go", ".rb",
            ".php", ".rs", ".swift", ".kt", ".dart", ".md", ".json", ".yml",
            ".yaml"} |->
        CASE e = ".py" -> "Python" [] e = ".js" -> "JavaScript"
          [] e = ".ts" -> "TypeScript" [] e = ".html" -> "HTML"
          [] e = ".css" -> "CSS" [] e = ".sql" -> "SQL" [] e = ".java" -> "Java"
          [] e = ".go" -> "Go" [] e = ".rb" -> "Ruby" [] e = ".php" -> "PHP"
          [] e = ".rs" -> "Rust" [] e = ".swift" -> "Swift"
          [] e = ".kt" -> "Kotlin" [] e = ".dart" -> "Dart"
          [] e = ".md" -> "Markdown" [] e = ".json" -> "JSON"
          [] OTHER -> "YAML"]

\* Python's None as a language
NoLanguage == "None"

\* mapping.get(extension) without the default
_detect_language_no_default(extension) ==
    IF extension \in DOMAIN LanguageMapping THEN LanguageMapping[extension]
    ELSE NoLanguage

_detect_language(extension) ==
    IF extension \in DOMAIN LanguageMapping THEN LanguageMapping[extension]
    ELSE "Other"

\* an entry of the tree listing
TreeItem(path, type, size) == [path |-> path, type |-> type, size |-> size]

TreeItems ==
    {TreeItem("app.py", "blob", 500),
     TreeItem("lib/big.py", "blob", 30000),
     TreeItem("web/huge.js", "blob", 30001),
     TreeItem("README.md", "blob", 0),
     TreeItem("web/view.tsx", "blob", 500),
     TreeItem("node_modules/x.js", "blob", 500),
     TreeItem("logo.png", "blob", 900),
     TreeItem("web", "tree", 0)}

\* the listings of at most MaxTree entries, no path listed twice
ShortListings ==
    UNION {{t \in [1..n -> TreeItems] :
               \A a, b \in 1..n : a # b => t[a].path # t[b].path} : n \in 0..MaxTree}

Padding == [j \in 1..(MAX_FILES_TO_FETCH - 1) |-> TreeItem(PadPath(j), "blob", 0)]

\* the listings of the model: a short listing, alone or (one entry shorter)
\* after the padding
TreeListings ==
    ShortListings \cup {Padding \o t : t \in {q \in ShortListings : Len(q) < MaxTree}}

\* the text of the file the provider serves for an entry
TextOf(item) ==
    [chars |-> item.size, lines |-> 1 + (item.size \div 40), pats |-> {},
     placeholder |-> FALSE]

NotFoundDetail == "404: Repository tree not found on 'main' or 'master' branch."
TransportError == "httpx.TransportError"

\* tree_urls with the two branches in the other order
tree_urls_master_first == <<"master", "main">>

\* tree_urls
tree_urls == <<"main", "master">>

\* status codes the provider answers a tree request with
TreeStatuses == {200, 404, 500}

FetchInit ==
    /\ PipeInit
    /\ FnIdle
    /\ fpc = "tree"
    /\ tree_data \in TreeListings
    /\ tree_log = <<>>
    /\ requests = <<>>
    /\ idx = 1
    /\ files = <<>>
    /\ total_size = 0
    /\ language_stats = <<>>
    /\ outcome = [kind |-> "none"]

\* lines 139-145: one request of the loop over tree_urls gets its response
TreeResponse(status) ==
    /\ fpc = "tree"
    /\ LET url == tree_urls[Len(tree_log) + 1]
       IN tree_log' = Append(tree_log, [branch |-> url, status |-> status])
    /\ IF status = 200
       THEN /\ fpc' = "loop"
            /\ outcome' = outcome
       ELSE IF Len(tree_log) + 1 < Len(tree_urls)
       THEN /\ fpc' = "tree"
            /\ outcome' = outcome
       ELSE /\ fpc' = "raised"
            /\ outcome' = [kind |-> "raised", error |-> NotFoundDetail]
    /\ UNCHANGED <<tree_data, requests, idx, files, total_size, language_stats>>
    /\ UNCHANGED <<pipeVars, fnVars>>

\* line 140: client.get raises (no handler around it)
TreeRaise ==
    /\ fpc = "tree"
    /\ LET url == tree_urls[Len(tree_log) + 1]
       IN tree_log' = Append(tree_log, [branch |-> url, status |-> 0])
    /\ fpc' = "raised"
    /\ outcome' = [kind |-> "raised", error |-> TransportError]
    /\ UNCHANGED <<tree_data, requests, idx, files, total_size, language_stats>>
    /\ UNCHANGED <<pipeVars, fnVars>>

\* line 164
Rejected(item) ==
    item.type # "blob" \/ _should_skip_path(item.path) \/ ~_is_code_file(item.path)

\* line 179
Downloadable(size) == size > 0 /\ size <= MAX_FILE_SIZE_TO_FETCH

\* line 204 on the dict language_stats, kept as its items in insertion order
AddLanguage(stats, language, size) ==
    IF \E k \in 1..Len(stats) : stats[k].language = language
    THEN [k \in 1..Len(stats) |->
             IF stats[k].language = language
             THEN [stats[k] EXCEPT !.bytes = stats[k].bytes + size]
             ELSE stats[k]]
    ELSE Append(stats, [language |-> language, bytes |-> size])

\* lines 201-204: the file is appended and counted
AcceptFile(item, content) ==
    LET language == _detect_language(SplitExt(item.path))
    IN /\ files' = Append(files, RepositoryFile(item.path, content, item.size, language))
       /\ total_size' = total_size + item.size
       /\ language_stats' = IF language # NoLanguage
                            THEN AddLanguage(language_stats, language, item.size)
                            ELSE language_stats
       /\ idx' = idx + 1
       /\ fpc' = "loop"

\* the cap test counting the entries scanned instead of the files accepted
CapReached_scanned == idx - 1 >= MAX_FILES_TO_FETCH

\* lines 160-161: if len(files) >= MAX_FILES_TO_FETCH: break
CapReached == Len(files) >= MAX_FILES_TO_FETCH

LoopRunning ==
    /\ fpc = "loop"
    /\ idx <= Len(tree_data)
    /\ ~CapReached

\* line 165: continue
LoopSkip ==
    /\ LoopRunning
    /\ Rejected(tree_data[idx])
    /\ idx' = idx + 1
    /\ UNCHANGED <<fpc, tree_data, tree_log, requests, files, total_size,
                   language_stats, outcome>>
    /\ UNCHANGED <<pipeVars, fnVars>>

\* the file is accepted without a download
LoopAcceptListed ==
    /\ LoopRunning
    /\ ~Rejected(tree_data[idx])
    /\ ~Downloadable(tree_data[idx].size)
    /\ AcceptFile(tree_data[idx], EmptyContent)
    /\ UNCHANGED <<tree_data, tree_log, requests, outcome>>
    /\ UNCHANGED <<pipeVars, fnVars>>

\* line 185: the raw content is requested
LoopDownload ==
    /\ LoopRunning
    /\ ~Rejected(tree_data[idx])
    /\ Downloadable(tree_data[idx].size)
    /\ requests' = Append(requests, [kind |-> "raw", path |-> tree_data[idx].path])
    /\ fpc' = "raw"
    /\ UNCHANGED <<tree_data, tree_log, idx, files, total_size, language_stats, outcome>>
    /\ UNCHANGED <<pipeVars, fnVars>>

\* lines 187-188
RawOk ==
    /\ fpc = "raw"
    /\ AcceptFile(tree_data[idx], TextOf(tree_data[idx]))
    /\ UNCHANGED <<tree_data, tree_log, requests, outcome>>
    /\ UNCHANGED <<pipeVars, fnVars>>

\* lines 189-194: the blob API is requested
RawFailed ==
    /\ fpc = "raw"
    /\ requests' = Append(requests, [kind |-> "blob", path |-> tree_data[idx].path])
    /\ fpc' = "blob"
    /\ UNCHANGED <<tree_data, tree_log, idx, files, total_size, language_stats, outcome>>
    /\ UNCHANGED <<pipeVars, fnVars>>

\* lines 198-199: a request raised, the content stays empty
DownloadRaise ==
    /\ fpc \in {"raw", "blob"}
    /\ AcceptFile(tree_data[idx], EmptyContent)
    /\ UNCHANGED <<tree_data, tree_log, requests, outcome>>
    /\ UNCHANGED <<pipeVars, fnVars>>

\* lines 195-196
BlobResponse(ok) ==
    /\ fpc = "blob"
    /\ AcceptFile(tree_data[idx], IF ok THEN TextOf(tree_data[idx]) ELSE EmptyContent)
    /\ UNCHANGED <<tree_data, tree_log, requests, outcome>>
    /\ UNCHANGED <<pipeVars, fnVars>>

\* max(language_stats, key=language_stats.get), taking the last maximum
LastMaxLanguage(stats) ==
    LET k == CHOOSE k \in 1..Len(stats) :
                 /\ \A j \in 1..Len(stats) : stats[j].bytes <= stats[k].bytes
                 /\ \A j \in (k + 1)..Len(stats) : stats[j].bytes < stats[k].bytes
    IN stats[k].language

\* max(language_stats, key=language_stats.get): the first key, in the dict's
\* order, whose value no other exceeds
FirstMaxLanguage(stats) ==
    LET k == CHOOSE k \in 1..Len(stats) :
                 /\ \A j \in 1..Len(stats) : stats[j].bytes <= stats[k].bytes
                 /\ \A j \in 1..(k - 1) : stats[j].bytes < stats[k].bytes
    IN stats[k].language

\* line 206
PrimaryLanguage(stats) ==
    IF stats # <<>> THEN FirstMaxLanguage(stats) ELSE "Unknown"

\* lines 206-215
RepositoryData ==
    [files |-> files, file_count |-> Len(files), total_size |-> total_size,
     primary_language |-> PrimaryLanguage(language_stats),
     languages |-> language_stats]

\* the loop is over (line 156 or line 161): the result is returned
LoopReturn ==
    /\ fpc = "loop"
    /\ idx > Len(tree_data) \/ CapReached
    /\ fpc' = "returned"
    /\ outcome' = [kind |-> "returned", data |-> RepositoryData]
    /\ UNCHANGED <<tree_data, tree_log, requests, idx, files, total_size, language_stats>>
    /\ UNCHANGED <<pipeVars, fnVars>>

FetchNext ==
    \/ \E status \in TreeStatuses : TreeResponse(status)
    \/ TreeRaise
    \/ LoopSkip
    \/ LoopAcceptListed
    \/ LoopDownload
    \/ RawOk
    \/ RawFailed
    \/ DownloadRaise
    \/ \E ok \in BOOLEAN : BlobResponse(ok)
    \/ LoopReturn

SpecFetch == FetchInit /\ [][FetchNext]_vars

(***************************************************************************)
(* ai_service.py: one call of analyze_repository whose backend request     *)
(* answered, over every answer text of the model.  The call runs the       *)
(* static pass, then parses the answer and extends the list with it.       *)
(***************************************************************************)
MaxItems == 3

FeedbackCategories == {"security", "quality", "architecture"}
Severities == {"critical", "warning", "info"}

\* elements a backend can put in its array
GoodItem == ObjItem("quality", "warning", Some("util.js"))
OutsideItem == ObjItem("performance", "HIGH", Some("main.py"))
GhostItem == ObjItem("security", "info", Some("ghost.py"))
AnswerItems == {GoodItem, OutsideItem, GhostItem, InvalidItem, NonObjectItem}

Arrays == UNION {[1..n -> AnswerItems] : n \in 0..MaxItems}
ShortArrays == {d \in Arrays : Len(d) <= 1}

\* the empty answer, prose alone, one array inside prose (as in
\* {"findings": [...]}), bracketed text that is no JSON, and two arrays with
\* prose between them
AnswerTexts ==
    {<<>>, <<Prose>>}
    \cup {<<Prose, ArraySeg(d), Prose>> : d \in Arrays}
    \cup {<<MalformedSeg(d)>> : d \in ShortArrays}
    \cup {<<ArraySeg(a), Prose, ArraySeg(b)>> : a \in ShortArrays, b \in ShortArrays}

ParseInit ==
    /\ PipeInit
    /\ FetchIdle
    /\ fn_arg \in [repo_files : PipelineRepos, text : AnswerTexts]
    /\ fn_pos = 0
    /\ fn_acc = <<>>
    /\ fn_ret = None

\* lines 42-43: all_feedback.extend(static_feedback)
StaticPass ==
    /\ fn_pos = 0
    /\ fn_acc' = _run_static_analysis(fn_arg.repo_files)
    /\ fn_pos' = 1
    /\ UNCHANGED <<fn_arg, fn_ret>>
    /\ UNCHANGED <<pipeVars, fetchVars>>

\* lines 103-116: the answer is parsed and appended; an exception of the
\* parser would leave through the except of line 110
ReasoningPass ==
    /\ fn_pos = 1
    /\ LET parsed == ParseCall(fn_arg.text)
       IN fn_ret' = Some([parsed |-> parsed,
                          raised |-> parsed.raised,
                          all_feedback |-> IF parsed.raised THEN <<>>
                                           ELSE fn_acc \o parsed.value])
    /\ fn_pos' = 2
    /\ UNCHANGED <<fn_arg, fn_acc>>
    /\ UNCHANGED <<pipeVars, fetchVars>>

ParseNext == StaticPass \/ ReasoningPass

SpecParse == ParseInit /\ [][ParseNext]_vars

(***************************************************************************)
(* ai_service.py: one call of calculate_scores, finding by finding         *)
(***************************************************************************)
MaxFindings == 3

Finding(category, severity) == FeedbackItem(category, severity, "f", None)

\* findings in and outside the closed sets: a category without a score and
\* severities the weight table does not hold in that spelling
ScoreFindings ==
    {Finding("security", "critical"), Finding("security", "warning"),
     Finding("quality", "info"), Finding("quality", "critical"),
     Finding("architecture", "warning"), Finding("architecture", "CRITICAL"),
     Finding("performance", "critical"), Finding("security", "high")}

ScoreInit ==
    /\ PipeInit
    /\ FetchIdle
    /\ fn_arg \in UNION {[1..n -> ScoreFindings] : n \in 0..MaxFindings}
    /\ fn_pos = 0
    /\ fn_acc = InitialScores
    /\ fn_ret = None

\* lines 219-226: the loop body for the next finding
ScoreFold ==
    /\ fn_ret = None
    /\ fn_pos < Len(fn_arg)
    /\ fn_acc' = ScoreStep(fn_acc, fn_arg[fn_pos + 1])
    /\ fn_pos' = fn_pos + 1
    /\ UNCHANGED <<fn_arg, fn_ret>>
    /\ UNCHANGED <<pipeVars, fetchVars>>

\* lines 228-230
ScoreReturn ==
    /\ fn_ret = None
    /\ fn_pos = Len(fn_arg)
    /\ fn_ret' = Some(WithOverall(fn_acc))
    /\ UNCHANGED <<fn_arg, fn_pos, fn_acc>>
    /\ UNCHANGED <<pipeVars, fetchVars>>

ScoreNext == ScoreFold \/ ScoreReturn

SpecScore == ScoreInit /\ [][ScoreNext]_vars

(***************************************************************************)
(* ai_service.py: one call of _run_static_analysis, file by file           *)
(***************************************************************************)
MaxFiles == 2

StaticContents ==
    {EmptyContent,
     [chars |-> 6000, lines |-> 300, pats |-> {}, placeholder |-> FALSE],
     [chars |-> 6020, lines |-> 301, pats |-> {}, placeholder |-> FALSE],
     [chars |-> 6000, lines |-> 300, pats |-> {"Supabase Key"},
      placeholder |-> FALSE],
     [chars |-> 400, lines |-> 10,
      pats |-> {"Private Key Block", "Generic API Key"}, placeholder |-> FALSE],
     [chars |-> 6020, lines |-> 301,
      pats |-> {"Generic API Key", "Supabase Key", "Private Key Block"},
      placeholder |-> TRUE]}
StaticPaths == {"app.py", "lib/keys.js", "web/index.ts"}
StaticFiles ==
    {RepositoryFile(path, content, content.chars, "Other") :
        path \in StaticPaths, content \in StaticContents}

\* RepositoryData.files: no path twice
StaticRepos ==
    {fs \in UNION {[1..n -> StaticFiles] : n \in 0..MaxFiles} :
        \A j, k \in 1..Len(fs) : j # k => fs[j].path # fs[k].path}

StaticInit ==
    /\ PipeInit
    /\ FetchIdle
    /\ fn_arg \in StaticRepos
    /\ fn_pos = 0
    /\ fn_acc = <<>>
    /\ fn_ret = None

\* lines 129-158: the loop body for the next file
StaticFile ==
    /\ fn_ret = None
    /\ fn_pos < Len(fn_arg)
    /\ fn_acc' = fn_acc \o FileFindings(fn_arg[fn_pos + 1])
    /\ fn_pos' = fn_pos + 1
    /\ UNCHANGED <<fn_arg, fn_ret>>
    /\ UNCHANGED <<pipeVars, fetchVars>>

\* line 160
StaticReturn ==
    /\ fn_ret = None
    /\ fn_pos = Len(fn_arg)
    /\ fn_ret' = Some(fn_acc)
    /\ UNCHANGED <<fn_arg, fn_pos, fn_acc>>
    /\ UNCHANGED <<pipeVars, fetchVars>>

StaticNext == StaticFile \/ StaticReturn

SpecStatic == StaticInit /\ [][StaticNext]_vars

(***************************************************************************)
(* ai_service.py: one call of _get_smart_snippets, file by file.  A        *)
(* snippet is kept as the path of its file and the length of the content   *)
(* it carries; token_count_est, a multiple of 1/4, is kept times four.     *)
(***************************************************************************)
MaxSnipFiles == 6

MAX_TOKENS == 12000
MAX_CONTENT_LENGTH == 1500

\* the files of a repository by what the selection reads of them; the path
\* of a file is its directory, one per position, and its file name
SnipKinds == {"small", "empty", "oversize", "entry", "flagged"}
SnipName(kind) ==
    CASE kind = "small" -> "util.js"
      [] kind = "empty" -> "notes.py"
      [] kind = "oversize" -> "bundle.js"
      [] kind = "entry" -> "Main.py"
      [] kind = "flagged" -> "keys.js"
      [] kind = "service" -> "main.py"
SnipContent(kind) ==
    CASE kind = "small" ->
             [chars |-> 800, lines |-> 40, pats |-> {}, placeholder |-> FALSE]
      [] kind = "empty" -> EmptyContent
      [] kind = "oversize" ->
             [chars |-> 20000, lines |-> 250, pats |-> {}, placeholder |-> FALSE]
      [] kind = "entry" ->
             [chars |-> 1499, lines |-> 50, pats |-> {}, placeholder |-> FALSE]
      [] kind = "flagged" ->
             [chars |-> 9000, lines |-> 301, pats |-> {}, placeholder |-> FALSE]
      [] kind = "service" ->
             [chars |-> 2000, lines |-> 80, pats |-> {}, placeholder |-> FALSE]
SnipPath(kind, j) == "d" \o ToString(j) \o "/" \o SnipName(kind)
SnipFile(kind, j) ==
    RepositoryFile(SnipPath(kind, j), SnipContent(kind),
                   IF kind = "empty" THEN 120 ELSE SnipContent(kind).chars,
                   "Other")

\* as many full-length entry points as fit under MAX_TOKENS without
\* reaching it
ServiceCount == (4 * MAX_TOKENS) \div MAX_CONTENT_LENGTH - 1
Services == [j \in 1..ServiceCount |-> SnipFile("service", j)]

KindLists(kinds, n) == UNION {[1..m -> kinds] : m \in 0..n}
FilesOf(ks, offset) == [j \in 1..Len(ks) |-> SnipFile(ks[j], offset + j)]
\* repositories without a candidate, long enough to go past the slice of the
\* fallback; shorter repositories of all kinds; and repositories that start
\* with the services
SnipRepos ==
    {FilesOf(ks, 0) :
        ks \in KindLists({"small", "empty", "oversize"}, MaxSnipFiles)}
    \cup {FilesOf(ks, 0) : ks \in KindLists(SnipKinds, MaxSnipFiles - 2)}
    \cup {Services \o FilesOf(ks, ServiceCount) :
             ks \in KindLists({"small", "entry", "flagged"}, 3)}

\* the paths of the model that end with an entry-point name as written,
\* and those that end with one once lowered
ExactEntryPaths ==
    {SnipPath("service", j) : j \in 1..(ServiceCount + MaxSnipFiles)}
LoweredEntryPaths ==
    ExactEntryPaths
    \cup {SnipPath("entry", j) : j \in 1..(ServiceCount + MaxSnipFiles)}

\* the test of line 176 without lower()
is_entry_case_sensitive(path) == path \in ExactEntryPaths

\* line 176: any(file.path.lower().endswith(ep) for ep in entry_points)
is_entry(path) == path \in LoweredEntryPaths

\* line 168
flagged_paths(static_feedback) ==
    {static_feedback[k].file_path[1] : k \in 1..Len(static_feedback)}

\* the snippet of a file: file.content[:MAX_CONTENT_LENGTH]
Snippet(file) ==
    [path |-> file.path,
     chars |-> IF file.content.chars <= MAX_CONTENT_LENGTH
               THEN file.content.chars ELSE MAX_CONTENT_LENGTH]

SnipInit ==
    /\ PipeInit
    /\ FetchIdle
    /\ \E fs \in SnipRepos :
          fn_arg = [repo_files |-> fs,
                    flagged |-> flagged_paths(_run_static_analysis(fs))]
    /\ fn_pos = 0
    /\ fn_acc = [loop |-> "select", snippets |-> <<>>, est4 |-> 0]
    /\ fn_ret = None

\* lines 175-183: the loop body for the next file
SnipSelect ==
    /\ fn_ret = None
    /\ fn_acc.loop = "select"
    /\ fn_pos < Len(fn_arg.repo_files)
    /\ LET file == fn_arg.repo_files[fn_pos + 1]
           is_flagged == file.path \in fn_arg.flagged
       IN fn_acc' =
              IF (is_entry(file.path) \/ is_flagged)
                 /\ fn_acc.est4 < 4 * MAX_TOKENS
              THEN [fn_acc EXCEPT
                       !.snippets = Append(@, Snippet(file)),
                       !.est4 = @ + Snippet(file).chars]
              ELSE fn_acc
    /\ fn_pos' = fn_pos + 1
    /\ UNCHANGED <<fn_arg, fn_ret>>
    /\ UNCHANGED <<pipeVars, fetchVars>>

\* line 185: if not snippets
SnipFallbackStart ==
    /\ fn_ret = None
    /\ fn_acc.loop = "select"
    /\ fn_pos = Len(fn_arg.repo_files)
    /\ fn_acc.snippets = <<>>
    /\ fn_acc' = [fn_acc EXCEPT !.loop = "fallback"]
    /\ fn_pos' = 0
    /\ UNCHANGED <<fn_arg, fn_ret>>
    /\ UNCHANGED <<pipeVars, fetchVars>>

\* repo_data.files[:5]
FallbackSlice(fs) == SubSeq(fs, 1, IF Len(fs) < 5 THEN Len(fs) ELSE 5)

\* lines 187-191: the loop body for the next file of the slice
SnipFallback ==
    /\ fn_ret = None
    /\ fn_acc.loop = "fallback"
    /\ fn_pos < Len(FallbackSlice(fn_arg.repo_files))
    /\ LET file == FallbackSlice(fn_arg.repo_files)[fn_pos + 1]
       IN fn_acc' =
              IF file.content # EmptyContent /\ file.size < 10000
              THEN [fn_acc EXCEPT
                       !.snippets = Append(@, Snippet(file)),
                       !.est4 = @ + Snippet(file).chars]
              ELSE fn_acc
    /\ fn_pos' = fn_pos + 1
    /\ UNCHANGED <<fn_arg, fn_ret>>
    /\ UNCHANGED <<pipeVars, fetchVars>>

\* line 193
SnipReturn ==
    /\ fn_ret = None
    /\ \/ /\ fn_acc.loop = "select"
          /\ fn_pos = Len(fn_arg.repo_files)
          /\ fn_acc.snippets # <<>>
       \/ /\ fn_acc.loop = "fallback"
          /\ fn_pos = Len(FallbackSlice(fn_arg.repo_files))
    /\ fn_ret' = Some(fn_acc.snippets)
    /\ UNCHANGED <<fn_arg, fn_pos, fn_acc>>
    /\ UNCHANGED <<pipeVars, fetchVars>>

SnipNext == SnipSelect \/ SnipFallbackStart \/ SnipFallback \/ SnipReturn

SpecSnip == SnipInit /\ [][SnipNext]_vars

(***************************************************************************)
(* ai_services.py: one call of analyze_repository of the per-category      *)
(* variant, pass by pass.  The answer of the backend to a pass is a text,  *)
(* or the request raising.                                                 *)
(***************************************************************************)
\* the three ifs of lines 30-40, in their order
PassOrder == <<"security", "quality", "architecture">>

BackendRaises == <<[seg |-> "raise", data |-> <<>>, json |-> FALSE]>>
PassAnswers ==
    {BackendRaises,
     <<Prose>>,
     <<Prose, ArraySeg(<<>>)>>,
     <<MalformedSeg(<<GoodItem>>)>>,
     <<ArraySeg(<<GoodItem>>), Prose, ArraySeg(<<GhostItem>>)>>,
     <<Prose, ArraySeg(<<GoodItem, NonObjectItem, InvalidItem, GhostItem>>), Prose>>}

\* re.search(r'\[.*\]', response_text, re.DOTALL) followed by json.loads:
\* the match runs from the first "[" to the last "]" of the text
re_search_brackets(text) ==
    LET arrays == {k \in 1..Len(text) : text[k].seg = "array"}
    IN IF arrays = {} THEN [shape |-> "noarray", data |-> <<>>]
       ELSE IF Cardinality(arrays) = 1 /\ \A k \in arrays : text[k].json
       THEN [shape |-> "array", data |-> text[CHOOSE k \in arrays : TRUE].data]
       ELSE [shape |-> "badjson", data |-> <<>>]

\* FeedbackItem(**item) with the category the backend gave
PassFinding_own_category(item, expected_category) ==
    FeedbackItem(item.category, item.severity, item.title, item.file_path)

\* lines 196-197: item["category"] = expected_category; FeedbackItem(**item)
PassFinding(item, expected_category) ==
    FeedbackItem(expected_category, item.severity, item.title, item.file_path)

\* lines 183-203: the elements that are no object, or that FeedbackItem
\* rejects, are passed over (except: continue)
RECURSIVE CoercePassItems(_, _)
CoercePassItems(data, expected_category) ==
    IF data = <<>> THEN <<>>
    ELSE (IF Head(data).kind = "object" /\ Head(data).valid
          THEN <<PassFinding(Head(data), expected_category)>>
          ELSE <<>>) \o CoercePassItems(Tail(data), expected_category)

parse_per_category(response_text, expected_category) ==
    LET m == re_search_brackets(response_text)
    IN IF m.shape = "array" THEN CoercePassItems(m.data, expected_category)
       ELSE <<>>

\* _analyze_security, _analyze_quality, _analyze_architecture: lines 97-109,
\* 134-146, 169-181
AnalyzePass(category, answer) ==
    IF answer = BackendRaises THEN <<>>
    ELSE parse_per_category(answer, category)

PassInit ==
    /\ PipeInit
    /\ FetchIdle
    /\ fn_arg \in [focus_areas : SUBSET {"security", "quality", "architecture"},
                   answers : [{"security", "quality", "architecture"} -> PassAnswers]]
    /\ fn_pos = 0
    /\ fn_acc = [all_feedback |-> <<>>, passes |-> <<>>]
    /\ fn_ret = None

\* one of the ifs of lines 30-40
PassStep ==
    /\ fn_ret = None
    /\ fn_pos < Len(PassOrder)
    /\ LET category == PassOrder[fn_pos + 1]
           found == AnalyzePass(category, fn_arg.answers[category])
       IN fn_acc' =
              IF category \in fn_arg.focus_areas
              THEN [all_feedback |-> fn_acc.all_feedback \o found,
                    passes |-> Append(fn_acc.passes,
                                      [category |-> category, found |-> found])]
              ELSE fn_acc
    /\ fn_pos' = fn_pos + 1
    /\ UNCHANGED <<fn_arg, fn_ret>>
    /\ UNCHANGED <<pipeVars, fetchVars>>

\* line 42
PassReturn ==
    /\ fn_ret = None
    /\ fn_pos = Len(PassOrder)
    /\ fn_ret' = Some(fn_acc.all_feedback)
    /\ UNCHANGED <<fn_arg, fn_pos, fn_acc>>
    /\ UNCHANGED <<pipeVars, fetchVars>>

PassNext == PassStep \/ PassReturn

SpecPasses == PassInit /\ [][PassNext]_vars

(***************************************************************************)
(* The review pipeline: main.py over database.py                           *)
(***************************************************************************)
LegalStatusChanges ==
    {<<NoRecord, PENDING>>, <<PENDING, PROCESSING>>,
     <<PROCESSING, COMPLETED>>, <<PROCESSING, FAILED>>}

\* C1: the persisted status of an attempt only ever changes along
\* PENDING->PROCESSING, PROCESSING->COMPLETED or PROCESSING->FAILED (after the
\* record is created PENDING), whether or not the persistence writes succeed.
C1_StatusOnlyAlongStateMachine ==
    [][\A r \in ReviewIds :
          reviews'[r].status # reviews[r].status
              => <<reviews[r].status, reviews'[r].status>> \in LegalStatusChanges]_vars

\* C2: when a stage of the run raised, the attempt is FAILED with the
\* exception's message as error_message, no feedback or scores are stored and
\* the run is over (no stage runs again).
C2_RaiseEndsFailedWithMessage ==
    \A r \in ReviewIds :
        run[r].raised # None
            => /\ reviews[r].status = FAILED
               /\ reviews[r].error_message = run[r].raised
               /\ reviews[r].feedback = None
               /\ reviews[r].scores = None
               /\ pc[r] = "done"

\* C3: when fetch, analysis and scoring of an attempt all succeeded, the
\* stored feedback is the static findings followed by the parsed reasoning
\* findings, the stored scores are those of that list and the status is
\* COMPLETED.
C3_SuccessStoresStaticThenReasoning ==
    \A r \in ReviewIds :
        (pc[r] = "done" /\ run[r].raised = None)
            => LET fb == _run_static_analysis(run[r].repo_data[1])
                         \o _parse_ai_response(run[r].text[1])
               IN /\ reviews[r].status = COMPLETED
                  /\ reviews[r].feedback = Some(fb)
                  /\ reviews[r].scores = Some(calculate_scores(fb))

\* C4: a started run that has come to its end left the attempt COMPLETED or
\* FAILED (the attempt does not stay PENDING or PROCESSING forever: nothing
\* writes the record once the run is over).
C4_FinishedRunIsTerminal ==
    \A r \in ReviewIds :
        pc[r] = "done" => reviews[r].status \in {COMPLETED, FAILED}

\* the records a run can leave behind when it runs alone, from its own locals
OwnRecords(r) ==
    LET created == [NoReview EXCEPT !.status = PENDING, !.user_id = run[r].user_id]
        started == {created, [created EXCEPT !.status = PROCESSING]}
    IN CASE pc[r] = "none" -> {NoReview}
         [] pc[r] = "scheduled" -> {created}
         [] pc[r] \in {"fetching", "analyzing"} -> started
         [] pc[r] = "done" /\ run[r].raised # None ->
               started \cup {[created EXCEPT !.status = FAILED,
                                             !.error_message = run[r].raised]}
         [] OTHER ->
               LET fb == analyze_repository(run[r].repo_data[1], run[r].text[1])
               IN started \cup {[created EXCEPT !.status = COMPLETED,
                                                !.feedback = Some(fb),
                                                !.scores = Some(calculate_scores(fb))]}

\* the runs of user u that wrote the subscription counter
CounterWriters(u) ==
    {r \in ReviewIds : run[r].user_id = Some(u) /\ run[r].counter_written # None}

C15_BackendFailureFailsAttempt ==
    \A r \in ReviewIds :
        (run[r].raised # None /\ run[r].raised[1] \in AnalyzeErrors)
            => /\ reviews[r].status = FAILED
               /\ reviews[r].feedback = None
               /\ reviews[r].scores = None
               /\ pc[r] = "done"

\* the accepted attempts of a user whose run is not over
RunningOf(u) ==
    {r \in ReviewIds : /\ run[r].user_id = Some(u)
                       /\ pc[r] \in {"scheduled", "fetching", "analyzing"}}

\* C25: for any interleaving of requests and runs of one user
\* reviews_used_this_month never exceeds reviews_limit, and no request is
\* accepted whose completion could lead the counter above the limit
C25_CounterNeverAboveLimit ==
    \A u \in Users :
        /\ used[u] <= reviews_limit
        /\ used[u] + Cardinality(RunningOf(u)) <= reviews_limit

CompletedOf(u) ==
    {r \in ReviewIds : /\ reviews[r].user_id = Some(u)
                       /\ reviews[r].status = COMPLETED}
AllRunsOver == \A r \in ReviewIds : pc[r] \in {"none", "done"}

\* C26: once all runs of a user are over, reviews_used_this_month is its
\* initial value plus the number of the user's COMPLETED attempts: a
\* COMPLETED attempt added exactly one, a FAILED attempt nothing
C26_CounterCountsCompleted ==
    AllRunsOver =>
        \A u \in Users : used[u] = Cardinality(CompletedOf(u))

NoResultsWithError ==
    \A r \in ReviewIds :
        reviews[r].error_message = None
            \/ (reviews[r].feedback = None /\ reviews[r].scores = None)
TerminalRecordsKept ==
    \A r \in ReviewIds :
        reviews[r].status \in {COMPLETED, FAILED} => reviews'[r] = reviews[r]

\* C27: COMPLETED and FAILED are absorbing: once an attempt has one of them,
\* no later step changes its status, feedback, scores or error_message; and
\* no attempt ever has both stored feedback or scores and an error_message
C27_TerminalStatusAbsorbing ==
    /\ []NoResultsWithError
    /\ [][TerminalRecordsKept]_vars

\* a COMPLETED attempt whose increment of the counter failed: the run is over
\* and the record holds its results and no error_message
C27_Witness ==
    \E r \in ReviewIds :
        /\ pc[r] = "done"
        /\ reviews[r].status = COMPLETED
        /\ run[r].text # None /\ run[r].counter_written = None
        /\ reviews[r].feedback # None
        /\ reviews[r].error_message = None

(***************************************************************************)
(* The repository fetcher: fetch_repository_smart                          *)
(***************************************************************************)
\* the statuses of the tree requests answered so far (0: the request raised)
TreeStatusesSeen == {tree_log[k].status : k \in 1..Len(tree_log)}
FetchOver == fpc \in {"returned", "raised"}

\* what every reading of C6 shares: 'main' is requested first, 'master' only
\* second and never after a 200 for 'main'; a 200 ends the tree requests and
\* the fetch goes on with that tree; a failed fetch returns no RepositoryData
\* and requests no file content
BranchOrder ==
    /\ Len(tree_log) <= 2
    /\ Len(tree_log) >= 1 => tree_log[1].branch = "main"
    /\ Len(tree_log) = 2 => tree_log[2].branch = "master" /\ tree_log[1].status # 200
    /\ \A k \in 1..Len(tree_log) :
           tree_log[k].status = 200 => k = Len(tree_log) /\ fpc # "raised"
    /\ fpc \in {"loop", "raw", "blob", "returned"} => 200 \in TreeStatusesSeen
    /\ fpc = "raised" => outcome.kind = "raised" /\ requests = <<>> /\ files = <<>>
    /\ outcome.kind = "returned" <=> fpc = "returned"

\* C6 as stated: main first, master only after main gave no tree, the first
\* tree is used, and when neither request yields a tree the fetch fails with
\* the not-found error, without a RepositoryData or a content request.
C6_Original_NoTreeIsNotFound ==
    /\ BranchOrder
    /\ (FetchOver /\ 200 \notin TreeStatusesSeen)
           => outcome.kind = "raised" /\ outcome.error = NotFoundDetail

\* C6 amended: as C6, except that the not-found error is what the fetch
\* fails with when both requests were answered without a tree; a tree
\* request that raises a transport error ends the fetch with that error at
\* once ('master' is not requested after 'main' raised), again without a
\* RepositoryData or a content request.
C6_BranchFallback ==
    /\ BranchOrder
    /\ Len(tree_log) = 2 => tree_log[1].status # 0
    /\ (FetchOver /\ TreeStatusesSeen \cap {0, 200} = {})
           => /\ Len(tree_log) = 2
              /\ outcome.kind = "raised" /\ outcome.error = NotFoundDetail
    /\ 0 \in TreeStatusesSeen
           => /\ fpc = "raised"
              /\ outcome.kind = "raised" /\ outcome.error = TransportError

\* both branches were asked and neither had a tree
C6_Witness ==
    /\ fpc = "raised"
    /\ Len(tree_log) = 2
    /\ tree_log[1].status = 404 /\ tree_log[2].status = 404
    /\ outcome.error = NotFoundDetail
    /\ tree_data # <<>>

\* C7: a tree request answered non-2xx other than not-found (401, 403, 500)
\* makes the fetch fail with an error that is not the not-found error; the
\* not-found error is raised only when both branches answered not-found.
C7_ProviderErrorDistinct ==
    fpc = "raised"
        => /\ (TreeStatusesSeen \ {0, 200, 404} # {}) => outcome.error # NotFoundDetail
           /\ outcome.error = NotFoundDetail
                  => Len(tree_log) = 2 /\ TreeStatusesSeen = {404}

\* the entry of the listing with the given path
ItemAt(path) == CHOOSE it \in {tree_data[k] : k \in 1..Len(tree_data)} : it.path = path
Requested(path) == \E k \in 1..Len(requests) : requests[k].path = path

\* C8: an accepted file whose listed size is at or above the cap (30000) is
\* never downloaded and has empty content; content is requested only for
\* files strictly under the cap.
C8_AtOrAboveCapNotDownloaded ==
    /\ \A k \in 1..Len(files) :
           files[k].size >= 30000
               => ~Requested(files[k].path) /\ files[k].content = EmptyContent
    /\ \A k \in 1..Len(requests) : ItemAt(requests[k].path).size < 30000

BytesOf(stats) == [k \in 1..Len(stats) |-> stats[k].bytes]
SizesOf(fs) == [k \in 1..Len(fs) |-> fs[k].size]

\* C9: a returned RepositoryData has file_count = len(files), total_size =
\* the sum of the sizes of all its files (downloaded or not) and the values
\* of languages summing to total_size.
C9_CountsAndSizesAgree ==
    outcome.kind = "returned"
        => LET d == outcome.data
           IN /\ d.file_count = Len(d.files)
              /\ d.total_size = SumSeq(SizesOf(d.files))
              /\ SumSeq(BytesOf(d.languages)) = d.total_size

\* a result with a file listed without content and a file of no mapped language
C9_Witness ==
    /\ outcome.kind = "returned"
    /\ \E a, b \in 1..Len(outcome.data.files) :
           /\ a # b
           /\ outcome.data.files[a].content = EmptyContent
           /\ outcome.data.files[a].size > 0
           /\ outcome.data.files[b].language = "Other"
           /\ outcome.data.files[b].content # EmptyContent

LanguagesOf(fs) == {fs[k].language : k \in 1..Len(fs)}
LanguageBytes(fs, language) ==
    SumSeq([k \in 1..Len(fs) |-> IF fs[k].language = language THEN fs[k].size ELSE 0])
FirstFileOf(fs, language) ==
    CHOOSE k \in 1..Len(fs) :
        /\ fs[k].language = language
        /\ \A j \in 1..(k - 1) : fs[j].language # language

\* C10: primary_language of a returned RepositoryData is a key of languages
\* of maximal cumulative size, among several maximal ones the one whose
\* first file comes first in the listing, and it is "Unknown" exactly when
\* languages is empty.
C10_PrimaryLanguageIsFirstMax ==
    outcome.kind = "returned"
        => LET d == outcome.data
               p == d.primary_language
               keys == {d.languages[k].language : k \in 1..Len(d.languages)}
           IN /\ (p = "Unknown") <=> (d.languages = <<>>)
              /\ d.languages # <<>>
                     => /\ p \in keys
                        /\ keys = LanguagesOf(d.files)
                        /\ \A k \in 1..Len(d.languages) :
                               d.languages[k].bytes
                                   = LanguageBytes(d.files, d.languages[k].language)
                        /\ \A l \in keys :
                               /\ LanguageBytes(d.files, l) <= LanguageBytes(d.files, p)
                               /\ (l # p /\ LanguageBytes(d.files, l)
                                               = LanguageBytes(d.files, p))
                                      => FirstFileOf(d.files, p) < FirstFileOf(d.files, l)

\* two languages tie for the largest size, the later one of more than one file
C10_Witness ==
    /\ outcome.kind = "returned"
    /\ Len(outcome.data.languages) >= 2
    /\ outcome.data.languages[1].bytes = outcome.data.languages[2].bytes
    /\ outcome.data.languages[1].bytes > 0
    /\ outcome.data.primary_language = outcome.data.languages[1].language
    /\ \A k \in 1..Len(outcome.data.languages) :
           outcome.data.languages[k].bytes <= outcome.data.languages[1].bytes

\* the tree entries that are blobs, match no skip pattern and pass the
\* code-file filter, in listing order
IsAccepted(item) ==
    /\ item.type = "blob"
    /\ ~_should_skip_path(item.path)
    /\ _is_code_file(item.path)
AcceptedEntries == SelectSeq(tree_data, IsAccepted)
Min(a, b) == IF a <= b THEN a ELSE b
Prefix(s, n) == SubSeq(s, 1, Min(Len(s), n))
PathsOf(s) == [k \in 1..Len(s) |-> s[k].path]

\* C18: the files returned are the first min(k, 70) of the k accepted tree
\* entries, in listing order; rejected entries do not count toward the cap
\* and file_count never exceeds 70
C18_FirstSeventyAccepted ==
    outcome.kind = "returned" =>
        /\ outcome.data.file_count <= 70
        /\ PathsOf(outcome.data.files) = PathsOf(Prefix(AcceptedEntries, 70))

\* 70 files returned although a rejected entry was scanned before the last
\* of them: 71 entries scanned
C18_Witness ==
    /\ outcome.kind = "returned"
    /\ Len(outcome.data.files) = 70
    /\ \E k \in 1..Len(tree_data) :
          /\ ~IsAccepted(tree_data[k])
          /\ \E j \in (k + 1)..Len(tree_data) :
                outcome.data.files[70].path = tree_data[j].path

BlobRequested(path) ==
    \E k \in 1..Len(requests) : requests[k] = [kind |-> "blob", path |-> path]
\* the downloads that are over: every request but the one in progress
RequestedPaths == {requests[k].path : k \in 1..Len(requests)}
DownloadsOver ==
    IF fpc \in {"raw", "blob"} THEN RequestedPaths \ {tree_data[idx].path}
    ELSE RequestedPaths

\* C19: a file eligible for download has the content of a response, or the
\* blob API was requested for it before its content was left empty; a failed
\* download neither raises to the caller nor removes the file from files
C19_SecondaryTriedBeforeEmpty ==
    /\ \A k \in 1..Len(files) :
          Downloadable(files[k].size) =>
              \/ files[k].content # EmptyContent
              \/ BlobRequested(files[k].path)
    /\ \A p \in DownloadsOver : \E k \in 1..Len(files) : files[k].path = p
    /\ outcome.kind = "raised" => requests = <<>>

(***************************************************************************)
(* The reasoning pass: _parse_ai_response inside analyze_repository        *)
(***************************************************************************)
AnalysisOver == fn_pos = 2 /\ fn_ret # None

\* C11: _parse_ai_response never raises; when the pattern matches nowhere in
\* the text, or the text from the first "[{" to the last "}]" is no JSON, it
\* returns the empty list and analyze_repository returns the static findings
C11_ParserNeverRaises ==
    AnalysisOver =>
        LET r == fn_ret[1]
        IN /\ ~r.parsed.raised
           /\ ~r.raised
           /\ re_search(fn_arg.text).shape \in {"noarray", "badjson"} =>
                 /\ r.parsed.value = <<>>
                 /\ r.all_feedback = _run_static_analysis(fn_arg.repo_files)

\* two arrays with prose between them: the greedy match spans both and is no
\* JSON, and the static findings are still returned
C11_Witness ==
    /\ AnalysisOver
    /\ Len(fn_arg.text) = 3
    /\ OpensWithObject(fn_arg.text[1])
    /\ ClosesWithObject(fn_arg.text[3])
    /\ fn_ret[1].parsed.value = <<>>
    /\ fn_ret[1].all_feedback # <<>>

CoercesToFinding(item) == item.kind = "object" /\ item.valid
FindingOf(item) ==
    FeedbackItem(item.category, item.severity, item.title, item.file_path)
CoercibleSubsequence(data) ==
    LET kept == SelectSeq(data, CoercesToFinding)
    IN [k \in 1..Len(kept) |-> FindingOf(kept[k])]

\* C12: for a parsed array the result is the subsequence of the elements
\* that coerce into a finding, in array order; an element that fails, an
\* element that is no object included, removes only itself
C12_BadElementRemovesOnlyItself ==
    (AnalysisOver /\ re_search(fn_arg.text).shape = "array") =>
        fn_ret[1].parsed.value =
            CoercibleSubsequence(re_search(fn_arg.text).data)

\* C13: every finding analyze_repository returns has its category and its
\* severity in the closed sets, in lower case
C13_CategoryAndSeverityClosed ==
    AnalysisOver =>
        \A k \in 1..Len(fn_ret[1].all_feedback) :
            /\ fn_ret[1].all_feedback[k].category \in FeedbackCategories
            /\ fn_ret[1].all_feedback[k].severity \in Severities

\* C14: every finding's file_path is absent or the path of a file of the
\* RepositoryData the call analysed
C14_FilePathInFetchedTree ==
    AnalysisOver =>
        \A k \in 1..Len(fn_ret[1].all_feedback) :
            LET fp == fn_ret[1].all_feedback[k].file_path
            IN fp = None \/
               \E j \in 1..Len(fn_arg.repo_files) :
                   fp = Some(fn_arg.repo_files[j].path)

(***************************************************************************)
(* The score aggregator: calculate_scores                                  *)
(***************************************************************************)
ScoresInRange ==
    /\ \A c \in ScoreKeys : fn_acc[c] \in 0..10
    /\ fn_pos = 0 => \A c \in ScoreKeys : fn_acc[c] = 10
    /\ fn_ret # None => fn_ret[1].overall \in 0..10
ScoresDoNotIncrease == \A c \in ScoreKeys : fn_acc'[c] <= fn_acc[c]

\* C16: while calculate_scores folds a finding sequence, each category score
\* starts at 10, never increases from one finding to the next and stays
\* within 0..10 after every step; overall is an integer within 0..10
C16_ScoresStartAtTenOnlyDecrease ==
    /\ []ScoresInRange
    /\ [][ScoresDoNotIncrease]_vars

\* three critical findings of one category: 10 - 12 stops at 0
C16_Witness ==
    /\ fn_pos = 3
    /\ \A k \in 1..3 : fn_arg[k] = Finding("security", "critical")
    /\ fn_acc.security = 0
    /\ fn_ret # None

Weight(severity) ==
    CASE severity = "critical" -> 4
      [] severity = "warning" -> 2
      [] severity = "info" -> 1
InClosedSets(feedback) ==
    \A k \in 1..Len(feedback) : /\ feedback[k].category \in FeedbackCategories
                                /\ feedback[k].severity \in Severities
WeightSum(feedback, c) ==
    SumSeq([k \in 1..Len(feedback) |->
               IF feedback[k].category = c THEN Weight(feedback[k].severity)
               ELSE 0])
\* the mean of three integers rounded to the nearest integer, halves up
HalfUpMean(a, b, c) == (2 * (a + b + c) + 3) \div 6

\* C17: for findings in the closed sets calculate_scores returns, for each
\* category, max(0, 10 - the sum of the weights of its findings) with weights
\* critical 4, warning 2, info 1, and overall the mean rounded half up; no
\* finding gives 10/10/10/10, one security/critical gives security 6, overall 9
C17_ScoresAreClampedWeightSums ==
    (fn_ret # None /\ InClosedSets(fn_arg)) =>
        LET s == fn_ret[1]
        IN /\ \A c \in ScoreKeys : s[c] = Max(0, 10 - WeightSum(fn_arg, c))
           /\ s.overall = HalfUpMean(s.security, s.quality, s.architecture)
           /\ fn_arg = <<>> =>
                 s = [security |-> 10, quality |-> 10, architecture |-> 10,
                      overall |-> 10]
           /\ fn_arg = <<Finding("security", "critical")>> =>
                 s.security = 6 /\ s.overall = 9

C17_Witness ==
    /\ fn_ret # None
    /\ fn_arg = <<Finding("security", "critical")>>
    /\ fn_ret[1] = [security |-> 6, quality |-> 10, architecture |-> 10,
                    overall |-> 9]

(***************************************************************************)
(* The static analyzer: _run_static_analysis                               *)
(***************************************************************************)
\* what the claim gives for one file: the size finding when the file has
\* more than 300 lines, then one finding per matching secret rule in the
\* order of the rule table
SizeFinding(file) ==
    IF file.content.lines > 300
    THEN <<[category |-> "architecture", severity |-> "warning",
            title |-> MonolithTitle, file_path |-> Some(file.path)]>>
    ELSE <<>>
RuleFindings(file) ==
    LET Matches(name) == name \in file.content.pats
        hits == SelectSeq(secret_patterns, Matches)
    IN [k \in 1..Len(hits) |->
           [category |-> "security", severity |-> "critical",
            title |-> hits[k], file_path |-> Some(file.path)]]
RECURSIVE ExpectedFindings(_, _)
ExpectedFindings(fs, n) ==
    IF n = 0 THEN <<>>
    ELSE ExpectedFindings(fs, n - 1) \o
         (IF fs[n].content = EmptyContent THEN <<>>
          ELSE SizeFinding(fs[n]) \o RuleFindings(fs[n]))

PlaceholderRule == "Generic API Key"
HasSecretFinding(findings, name, path) ==
    \E k \in 1..Len(findings) : /\ findings[k].title = name
                                /\ findings[k].file_path = Some(path)

\* C21: for a file whose content contains the placeholder literal the rule
\* that matches the placeholder assignment gives no hardcoded-secret
\* finding; for a file without the literal it gives its finding
C21_PlaceholderSuppressesSecretRule ==
    fn_ret # None =>
        \A k \in 1..Len(fn_arg) :
            PlaceholderRule \in fn_arg[k].content.pats =>
                (HasSecretFinding(fn_ret[1], PlaceholderRule, fn_arg[k].path)
                    <=> ~fn_arg[k].content.placeholder)

(***************************************************************************)
(* The snippet selection: _get_smart_snippets                              *)
(***************************************************************************)
\* C22: a candidate whose inclusion would push the token estimate above
\* 12000 is not added: the estimate of the included snippets (their lengths
\* / 4) never exceeds 12000
C22_EstimateWithinBudget ==
    /\ fn_acc.est4 = SumSeq([k \in 1..Len(fn_acc.snippets) |->
                                fn_acc.snippets[k].chars])
    /\ fn_acc.est4 <= 4 * 12000

IsCandidate(file) ==
    file.path \in LoweredEntryPaths \/ FileFindings(file) # <<>>
SomeCandidate ==
    \E j \in 1..Len(fn_arg.repo_files) : IsCandidate(fn_arg.repo_files[j])
\* the position in RepositoryData.files of the file a snippet was cut from
FileIndex(sn) ==
    CHOOSE j \in 1..Len(fn_arg.repo_files) : fn_arg.repo_files[j].path = sn.path
\* four times the estimate of the snippets of the files before position j
EstimateBefore(snippets, j) ==
    SumSeq([k \in 1..Len(snippets) |->
               IF FileIndex(snippets[k]) < j THEN snippets[k].chars ELSE 0])

\* C23: when some file is an entry point or flagged, every snippet belongs
\* to an entry point or to a file with a static finding; the snippets are in
\* the order of RepositoryData.files, at most one per file, each cut to at
\* most 1500 characters; every candidate reached while the estimate is under
\* the budget is included
C23_SnippetsAreCandidatesInOrder ==
    (fn_ret # None /\ SomeCandidate) =>
        LET snippets == fn_ret[1]
            fs == fn_arg.repo_files
        IN /\ \A k \in 1..Len(snippets) :
                 /\ \E j \in 1..Len(fs) : fs[j].path = snippets[k].path
                 /\ IsCandidate(fs[FileIndex(snippets[k])])
                 /\ snippets[k].chars <= 1500
                 /\ snippets[k].chars =
                        Min(fs[FileIndex(snippets[k])].content.chars, 1500)
                 /\ \A l \in (k + 1)..Len(snippets) :
                        FileIndex(snippets[k]) < FileIndex(snippets[l])
           /\ \A j \in 1..Len(fs) :
                 (IsCandidate(fs[j]) /\ EstimateBefore(snippets, j) < 4 * 12000)
                     => \E k \in 1..Len(snippets) : snippets[k].path = fs[j].path

\* an entry point spelled with a capital and a flagged file cut to 1500
\* characters are included, the file between them is not
C23_Witness ==
    /\ fn_ret # None
    /\ Len(fn_arg.repo_files) = 3
    /\ fn_arg.repo_files[1].path = SnipPath("entry", 1)
    /\ fn_arg.repo_files[2].path = SnipPath("small", 2)
    /\ fn_arg.repo_files[3].path = SnipPath("flagged", 3)
    /\ fn_ret[1] = <<[path |-> SnipPath("entry", 1), chars |-> 1499],
                     [path |-> SnipPath("flagged", 3), chars |-> 1500]>>

QualifiesForFallback(file) == file.content # EmptyContent /\ file.size < 10000

\* C24: when no file is an entry point or flagged, the snippets are the
\* first 5 of the files with non-empty content and size below 10000, in
\* listing order, each cut to 1500 characters; a file that does not qualify
\* uses up none of the 5 places
C24_FallbackFirstFiveQualifying ==
    (fn_ret # None /\ ~SomeCandidate) =>
        LET qualifying == SelectSeq(fn_arg.repo_files, QualifiesForFallback)
        IN /\ PathsOf(fn_ret[1]) = PathsOf(Prefix(qualifying, 5))
           /\ \A k \in 1..Len(fn_ret[1]) : fn_ret[1][k].chars <= 1500

(***************************************************************************)
(* The score aggregator: order and unknown values                          *)
(***************************************************************************)
Permute(feedback, p) == [k \in 1..Len(feedback) |-> feedback[p[k]]]

\* C28: calculate_scores does not depend on the order of the findings: every
\* permutation of a finding sequence gives the same four scores, in both
\* variants of the service
C28_ScoresIgnoreOrder ==
    fn_ret # None =>
        /\ fn_ret[1] = calculate_scores(fn_arg)
        /\ \A p \in Permutations(1..Len(fn_arg)) :
              /\ calculate_scores(Permute(fn_arg, p)) = fn_ret[1]
              /\ calculate_scores_per_category(Permute(fn_arg, p)) =
                     calculate_scores_per_category(fn_arg)

\* three different findings, two of one category and one of a category
\* without a score
C28_Witness ==
    /\ fn_ret # None
    /\ fn_arg = <<Finding("security", "critical"), Finding("performance", "critical"),
                  Finding("security", "warning")>>
    /\ fn_ret[1].security = 4

\* the step folds the finding at position fn_pos + 1
FoldedFinding == fn_arg[fn_pos + 1]
OnlyChanged(c, score) ==
    fn_acc' = [fn_acc EXCEPT ![c] = Max(0, score)]

\* C29: calculate_scores is total over findings with any category and
\* severity: a finding whose category is none of the three leaves the three
\* scores unchanged; a severity that, compared without case, is none of
\* critical, warning, info deducts the weight 1 from its category; a severity
\* in another letter case deducts the weight of its lower-case form
C29_UnknownValuesScored ==
    [][fn_pos' = fn_pos + 1 =>
          LET c == FoldedFinding.category
              sev == FoldedFinding.severity
          IN /\ c \notin {"security", "quality", "architecture"} => fn_acc' = fn_acc
             /\ (c \in {"security", "quality", "architecture"} /\ sev = "high")
                   => OnlyChanged(c, fn_acc[c] - 1)
             /\ (c \in {"security", "quality", "architecture"} /\ sev = "CRITICAL")
                   => OnlyChanged(c, fn_acc[c] - Weight("critical"))]_vars

\* an upper-case severity, an unknown severity and an unknown category
C29_Witness ==
    /\ fn_ret # None
    /\ fn_arg = <<Finding("architecture", "CRITICAL"), Finding("security", "high"),
                  Finding("performance", "critical")>>
    /\ fn_ret[1] = [security |-> 9, quality |-> 10, architecture |-> 6,
                    overall |-> 8]

(***************************************************************************)
(* The per-category variant: analyze_repository of ai_services.py          *)
(***************************************************************************)
InFocus(c) == c \in fn_arg.focus_areas
\* the answer to the pass of category c is a text holding one JSON array
Parsable(c) ==
    /\ fn_arg.answers[c] # BackendRaises
    /\ Cardinality({k \in 1..Len(fn_arg.answers[c]) :
                       /\ fn_arg.answers[c][k].seg = "array"}) = 1
    /\ \A k \in 1..Len(fn_arg.answers[c]) : fn_arg.answers[c][k].json
CoercibleIn(c) ==
    LET IsArray(sg) == sg.seg = "array"
    IN Len(SelectSeq(SelectSeq(fn_arg.answers[c], IsArray)[1].data,
                     CoercesToFinding))
CountOf(findings, c) ==
    Cardinality({k \in 1..Len(findings) : findings[k].category = c})

\* C30: a pass runs for the categories of focus_areas only, in the order
\* security, quality, architecture; a pass whose backend request failed or
\* whose answer cannot be parsed gives no finding, raises nothing and the
\* passes after it still run; every finding of a pass has the pass's category
C30_PassesPerFocusArea ==
    fn_ret # None =>
        /\ [k \in 1..Len(fn_acc.passes) |-> fn_acc.passes[k].category]
               = SelectSeq(PassOrder, InFocus)
        /\ \A k \in 1..Len(fn_acc.passes) :
              \A j \in 1..Len(fn_acc.passes[k].found) :
                  fn_acc.passes[k].found[j].category = fn_acc.passes[k].category
        /\ \A c \in {"security", "quality", "architecture"} :
              CountOf(fn_ret[1], c) =
                  IF InFocus(c) /\ Parsable(c) THEN CoercibleIn(c) ELSE 0
        /\ \A k \in 1..Len(fn_ret[1]) : \A j \in (k + 1)..Len(fn_ret[1]) :
              \E a, b \in 1..3 : /\ a <= b
                                 /\ fn_ret[1][k].category = PassOrder[a]
                                 /\ fn_ret[1][j].category = PassOrder[b]

\* the security request raises, the quality answer is no JSON, and the
\* architecture pass still returns its two findings
C30_Witness ==
    /\ fn_ret # None
    /\ fn_arg.focus_areas = {"security", "quality", "architecture"}
    /\ fn_arg.answers["security"] = BackendRaises
    /\ ~Parsable("quality") /\ fn_arg.answers["quality"] # BackendRaises
    /\ Len(fn_ret[1]) = 2
    /\ \A k \in 1..2 : fn_ret[1][k].category = "architecture"

====
